---- MODULE Spec2Model ----
(***************************************************************************)
(* A model of docformatter (src/docformatter.py): the docstring            *)
(* normaliser (format_docstring and its helpers), the token-stream         *)
(* reconstruction loop of format_code, and the file driver main.           *)
(*                                                                         *)
(* A text is a sequence of one-character strings, so that stripping,       *)
(* splitting, joining and searching are computed character by character,   *)
(* as the Python string methods compute them.                              *)
(***************************************************************************)
EXTENDS Integers, Sequences, FiniteSets, TLC

(***************************************************************************)
(* Characters and Python's str / re primitives                             *)
(***************************************************************************)

\* Characters matched by \s and removed by str.strip() (those of the model's alphabet).
IsSpace(c) == c \in {" ", "\t", "\n", "\r"}

\* str.isalnum() on one character (the letters of the model's alphabet).
Letters ==
    {"a", "b", "c", "d", "e", "f", "g", "h", "i", "j", "k", "l", "m", "n", "o", "p", "q",
     "r", "s", "t", "u", "v", "w", "x", "y", "z", "R"}

IsAlnum(c) == c \in Letters

DQ == "\""

SQ == "'"

BS == "\\"

TripleDouble == <<DQ, DQ, DQ>>

TripleSingle == <<SQ, SQ, SQ>>

\* s[i:] with a 1-based index (the empty text when i is past the end).
Drop(s, i) == IF i > Len(s) THEN <<>> ELSE SubSeq(s, i, Len(s))

\* s[:i] keeping the first i characters.
Take(s, i) == IF i <= 0 THEN <<>> ELSE SubSeq(s, 1, IF i > Len(s) THEN Len(s) ELSE i)

\* s.startswith(p, at i), 1-based.
StartsWithAt(s, p, i) ==
    /\ i >= 1
    /\ i + Len(p) - 1 <= Len(s)
    /\ \A k \in 1..Len(p) : s[i + k - 1] = p[k]

StartsWith(s, p) == StartsWithAt(s, p, 1)

EndsWith(s, p) == Len(p) <= Len(s) /\ StartsWithAt(s, p, Len(s) - Len(p) + 1)

\* The least index >= pos of a character outside chars (Len + 1 when none).
RECURSIVE SkipChars(_, _, _)
SkipChars(line, pos, chars) ==
    IF pos > Len(line) \/ line[pos] \notin chars THEN pos
    ELSE SkipChars(line, pos + 1, chars)

\* The least index >= pos of a character of chars (Len + 1 when none).
RECURSIVE FindChars(_, _, _)
FindChars(line, pos, chars) ==
    IF pos > Len(line) \/ line[pos] \in chars THEN pos
    ELSE FindChars(line, pos + 1, chars)

\* The greatest index <= pos of a character outside chars (0 when none).
RECURSIVE SkipCharsBack(_, _, _)
SkipCharsBack(line, pos, chars) ==
    IF pos < 1 \/ line[pos] \notin chars THEN pos
    ELSE SkipCharsBack(line, pos - 1, chars)

\* s.find(p, i): the least 1-based index >= i where p occurs, 0 when it does not.
RECURSIVE FindFrom(_, _, _)
FindFrom(s, p, i) ==
    IF i + Len(p) - 1 > Len(s) THEN 0
    ELSE IF StartsWithAt(s, p, i) THEN i
    ELSE FindFrom(s, p, i + 1)

Find(s, p) == FindFrom(s, p, 1)

\* The greatest 1-based index <= i where p occurs, 0 when it does not.
RECURSIVE RFindFrom(_, _, _)
RFindFrom(s, p, i) ==
    IF i < 1 THEN 0
    ELSE IF StartsWithAt(s, p, i) THEN i
    ELSE RFindFrom(s, p, i - 1)

\* s.rfind(p)
RFind(s, p) == RFindFrom(s, p, Len(s) - Len(p) + 1)

\* p in s
Contains(s, p) == Find(s, p) # 0

Whitespace == {" ", "\t", "\n", "\r"}

\* s.lstrip()
LStrip(s) == Drop(s, SkipChars(s, 1, Whitespace))

\* s.rstrip()
RStrip(s) == Take(s, SkipCharsBack(s, Len(s), Whitespace))

\* s.strip()
Strip(s) == LStrip(RStrip(s))

\* s.rstrip(chars) for a set of characters.
RStripChars(s, chars) == Take(s, SkipCharsBack(s, Len(s), chars))

\* sep.join(parts)
RECURSIVE Join(_, _)
Join(parts, sep) ==
    IF parts = <<>> THEN <<>>
    ELSE IF Len(parts) = 1 THEN parts[1]
    ELSE parts[1] \o sep \o Join(Tail(parts), sep)

\* s.splitlines(): lines end at \n, \r\n or \r; the terminators are dropped and
\* a final terminator starts no further line.
RECURSIVE SplitLines(_)
SplitLines(s) ==
    IF s = <<>> THEN <<>>
    ELSE LET e == FindChars(s, 1, {"\n", "\r"})
             n == IF e < Len(s) /\ s[e] = "\r" /\ s[e + 1] = "\n" THEN e + 2 ELSE e + 1
         IN  <<Take(s, e - 1)>> \o SplitLines(Drop(s, n))

\* ' ' * n
RECURSIVE Spaces(_)
Spaces(n) == IF n <= 0 THEN <<>> ELSE <<" ">> \o Spaces(n - 1)

(***************************************************************************)
(* textwrap.wrap, as normalize_summary calls it (default options: tabs     *)
(* expanded, whitespace replaced by spaces, whitespace dropped at line     *)
(* ends, long words broken)                                                *)
(***************************************************************************)

\* str.expandtabs(8) followed by the translation of every whitespace character
\* to a space (TextWrapper._munge_whitespace); col is the current column.
RECURSIVE MungeWhitespace(_, _)
MungeWhitespace(s, col) ==
    IF s = <<>> THEN <<>>
    ELSE IF s[1] = "\t"
         THEN LET n == 8 - (col % 8) IN Spaces(n) \o MungeWhitespace(Tail(s), col + n)
    ELSE IF s[1] \in {"\n", "\r"} THEN <<" ">> \o MungeWhitespace(Tail(s), 0)
    ELSE <<s[1]>> \o MungeWhitespace(Tail(s), col + 1)

\* TextWrapper._split: the maximal runs of whitespace and of non-whitespace.
RECURSIVE Chunks(_)
Chunks(s) ==
    IF s = <<>> THEN <<>>
    ELSE LET e == IF IsSpace(s[1]) THEN SkipChars(s, 1, Whitespace)
                  ELSE FindChars(s, 1, Whitespace)
         IN  <<Take(s, e - 1)>> \o Chunks(Drop(s, e))

\* The inner loop of _wrap_chunks: chunks are moved to the current line while they fit.
RECURSIVE FillLine(_, _, _, _)
FillLine(chunks, cur, curLen, width) ==
    IF chunks # <<>> /\ curLen + Len(chunks[1]) <= width
    THEN FillLine(Tail(chunks), Append(cur, chunks[1]), curLen + Len(chunks[1]), width)
    ELSE [cur |-> cur, curLen |-> curLen, rest |-> chunks]

\* TextWrapper._wrap_chunks with no indents and no max_lines.
RECURSIVE WrapChunks(_, _, _)
WrapChunks(chunks, lines, width) ==
    IF chunks = <<>> THEN lines
    ELSE LET c0 == IF Strip(chunks[1]) = <<>> /\ lines # <<>> THEN Tail(chunks) ELSE chunks
             f == FillLine(c0, <<>>, 0, width)
             long == f.rest # <<>> /\ Len(f.rest[1]) > width
             spaceLeft == IF width < 1 THEN 1 ELSE width - f.curLen
             cur1 == IF long THEN Append(f.cur, Take(f.rest[1], spaceLeft)) ELSE f.cur
             rest1 == IF long THEN <<Drop(f.rest[1], spaceLeft + 1)>> \o Tail(f.rest)
                      ELSE f.rest
             cur2 == IF cur1 # <<>> /\ Strip(cur1[Len(cur1)]) = <<>>
                     THEN SubSeq(cur1, 1, Len(cur1) - 1) ELSE cur1
             lines1 == IF cur2 # <<>> THEN Append(lines, Join(cur2, <<>>)) ELSE lines
         IN  WrapChunks(rest1, lines1, width)

\* textwrap.wrap(text, width=width)
Wrap(text, width) == WrapChunks(Chunks(MungeWhitespace(text, 0)), <<>>, width)

(***************************************************************************)
(* The docstring normaliser                                                *)
(***************************************************************************)

\* A variant of SubNewlines that leaves the newlines in place.
SubNewlines_Keep(s) == s

\* re.sub('\s*\n\s*', ' ', s): every maximal run of whitespace that holds a
\* newline becomes one space; other runs are kept.
RECURSIVE SubNewlines(_)
SubNewlines(s) ==
    IF s = <<>> THEN <<>>
    ELSE IF ~IsSpace(s[1]) THEN <<s[1]>> \o SubNewlines(Tail(s))
    ELSE LET e == SkipChars(s, 1, Whitespace)
             run == Take(s, e - 1)
         IN  (IF \E k \in 1..Len(run) : run[k] = "\n" THEN <<" ">> ELSE run)
             \o SubNewlines(Drop(s, e))

\* A variant of AddPeriod that never adds the period.
AddPeriod_Never(summary) == summary

\* Lines 149-153: newlines removed and a period added after a final alphanumeric.
AddPeriod(summary) ==
    IF summary # <<>> /\ IsAlnum(summary[Len(summary)])
    THEN summary \o <<".">> ELSE summary

normalize_summary(summary, wrap_length) ==
    LET s1 == AddPeriod(SubNewlines(Strip(summary)))
    IN  IF wrap_length > 0
        THEN Strip(Join(Wrap(Spaces(3) \o s1, wrap_length), <<"\n">>))
        ELSE s1

\* docstring.split(triple, 1)[1].rsplit(triple, 1)[0].strip(), with the quote
\* style taken from the start of the token.
strip_docstring(docstring) ==
    LET triple == IF StartsWith(LStrip(docstring), TripleSingle)
                  THEN TripleSingle ELSE TripleDouble
        first == Find(docstring, triple)
        rest == Drop(docstring, first + 3)
        last == RFind(rest, triple)
    IN  Strip(IF last = 0 THEN rest ELSE Take(rest, last - 1))

\* re.split('\.\s', contents, maxsplit=1): the least index of a period that
\* whitespace follows, 0 when there is none.
RECURSIVE PeriodSplitFrom(_, _)
PeriodSplitFrom(contents, i) ==
    IF i >= Len(contents) THEN 0
    ELSE IF contents[i] = "." /\ IsSpace(contents[i + 1]) THEN i
    ELSE PeriodSplitFrom(contents, i + 1)

PeriodSplitAt(contents) == PeriodSplitFrom(contents, 1)

\* A variant of split_summary_and_description that tries the period rule first.
split_PeriodFirst(contents) ==
    LET split == SplitLines(contents)
        at == PeriodSplitAt(contents)
    IN  IF at # 0
        THEN <<Strip(Take(contents, at - 1)) \o <<".">>, Strip(Drop(contents, at + 2))>>
        ELSE IF Len(split) > 1 /\ Strip(split[2]) = <<>>
             THEN <<split[1], Join(SubSeq(split, 3, Len(split)), <<"\n">>)>>
             ELSE <<Strip(contents), <<>>>>

split_summary_and_description(contents) ==
    LET split == SplitLines(contents)
        at == PeriodSplitAt(contents)
    IN  IF Len(split) > 1 /\ Strip(split[2]) = <<>>
        THEN <<split[1], Join(SubSeq(split, 3, Len(split)), <<"\n">>)>>
        ELSE IF at # 0
             THEN <<Strip(Take(contents, at - 1)) \o <<".">>, Strip(Drop(contents, at + 2))>>
             ELSE <<Strip(contents), <<>>>>

\* A variant of indent_non_indented that indents every line.
indent_Always(line, indentation) == indentation \o line

indent_non_indented(line, indentation) ==
    IF LStrip(line) = line THEN indentation \o line ELSE line

\* Lines 104-105: the description, each line reindented and right-stripped.
ReindentDescription(description, indentation) ==
    LET ls == SplitLines(description)
    IN  Join([i \in 1..Len(ls) |-> RStrip(indent_non_indented(ls[i], indentation))],
             <<"\n">>)

\* A variant of format_docstring without the guard of lines 91-92.
format_docstring_NoGuard(indentation, docstring, summary_wrap_length) ==
    LET contents == strip_docstring(docstring)
        sd == split_summary_and_description(contents)
    IN  IF sd[2] # <<>>
        THEN TripleDouble \o normalize_summary(sd[1], summary_wrap_length)
             \o <<"\n", "\n">> \o ReindentDescription(sd[2], indentation)
             \o <<"\n", "\n">> \o indentation \o TripleDouble
        ELSE TripleDouble \o normalize_summary(contents, summary_wrap_length)
             \o TripleDouble

format_docstring(indentation, docstring, summary_wrap_length) ==
    LET contents == strip_docstring(docstring)
        sd == split_summary_and_description(contents)
    IN  IF Contains(contents, TripleDouble) THEN docstring
        ELSE IF sd[2] # <<>>
             THEN TripleDouble \o normalize_summary(sd[1], summary_wrap_length)
                  \o <<"\n", "\n">> \o ReindentDescription(sd[2], indentation)
                  \o <<"\n", "\n">> \o indentation \o TripleDouble
             ELSE TripleDouble \o normalize_summary(contents, summary_wrap_length)
                  \o TripleDouble

starts_with_triple(string) ==
    StartsWith(Strip(string), TripleDouble) \/ StartsWith(Strip(string), TripleSingle)

(***************************************************************************)
(* tokenize.generate_tokens (line 27), for the lexical subset the model    *)
(* draws its sources from: names, one-character operators, comments,       *)
(* single- and triple-quoted strings without prefix, backslash             *)
(* continuations, brackets, and INDENT / DEDENT.                           *)
(* Rows are 1-based and columns 0-based, as in the token tuples.           *)
(***************************************************************************)

OpChars == {"=", ":", "(", ")", "+", ",", ";"}

Token(type, string, srow, scol, erow, ecol, line) ==
    [type |-> type, string |-> string, srow |-> srow, scol |-> scol,
     erow |-> erow, ecol |-> ecol, line |-> line]

\* StringIO.readline: the lines of the text, each with its terminating \n.
RECURSIVE ReadLines(_)
ReadLines(s) ==
    IF s = <<>> THEN <<>>
    ELSE LET e == Find(s, <<"\n">>)
         IN  IF e = 0 THEN <<s>> ELSE <<Take(s, e)>> \o ReadLines(Drop(s, e + 1))

\* endprog.match: the index just past the first closing quote q at or after
\* pos, a backslash escaping any character but a newline; 0 when the line
\* holds no closing quote.
RECURSIVE EndOfString(_, _, _)
EndOfString(line, pos, q) ==
    IF pos > Len(line) THEN 0
    ELSE IF line[pos] = BS
         THEN IF pos + 1 <= Len(line) /\ line[pos + 1] # "\n"
              THEN EndOfString(line, pos + 2, q) ELSE 0
    ELSE IF StartsWithAt(line, q, pos) THEN pos + Len(q)
    ELSE EndOfString(line, pos + 1, q)

\* The ContStr pattern: a one-line string from the quote at pos. The index just
\* past its end (a closing quote, or a backslash-newline that continues it);
\* 0 when neither comes before the end of the line.
RECURSIVE EndOfContStr(_, _, _)
EndOfContStr(line, pos, quote) ==
    IF pos > Len(line) THEN 0
    ELSE IF line[pos] = quote THEN pos + 1
    ELSE IF line[pos] = "\n" THEN 0
    ELSE IF line[pos] = BS
         THEN IF StartsWithAt(line, <<"\n">>, pos + 1) THEN pos + 2
              ELSE IF StartsWithAt(line, <<"\r", "\n">>, pos + 1) THEN pos + 3
              ELSE IF pos + 1 <= Len(line) THEN EndOfContStr(line, pos + 2, quote)
              ELSE 0
    ELSE EndOfContStr(line, pos + 1, quote)

\* The column of the indentation line[1..pos-1] (tabs advance to a multiple of 8).
RECURSIVE IndentColumn(_, _)
IndentColumn(ws, col) ==
    IF ws = <<>> THEN col
    ELSE IF ws[1] = "\t" THEN IndentColumn(Tail(ws), ((col \div 8) + 1) * 8)
    ELSE IndentColumn(Tail(ws), col + 1)

Emit(st, tok) == [st EXCEPT !.toks = Append(@, tok)]

\* The inner loop `while pos < max` over one line.
RECURSIVE LexLine(_, _, _)
LexLine(line, pos, st) ==
    LET max == Len(line)
        p == SkipChars(line, pos, {" ", "\t"})
        lnum == st.lnum
    IN  IF pos > max \/ p > max THEN st
        ELSE LET c == line[p] IN
        IF c = BS /\ (StartsWithAt(line, <<"\n">>, p + 1) \/ StartsWithAt(line, <<"\r", "\n">>, p + 1))
        THEN LexLine(line, IF line[p + 1] = "\n" THEN p + 2 ELSE p + 3,
                     [st EXCEPT !.continued = TRUE])
        ELSE IF c = "#"
        THEN LET e == FindChars(line, p, {"\r", "\n"})
             IN  LexLine(line, e, Emit(st, Token("COMMENT", SubSeq(line, p, e - 1), lnum, p - 1, lnum, e - 1, line)))
        ELSE IF StartsWithAt(line, TripleDouble, p) \/ StartsWithAt(line, TripleSingle, p)
        THEN LET q == SubSeq(line, p, p + 2)
                 e == EndOfString(line, p + 3, q)
             IN  IF e # 0
                 THEN LexLine(line, e, Emit(st, Token("STRING", SubSeq(line, p, e - 1), lnum, p - 1, lnum, e - 1, line)))
                 ELSE [st EXCEPT !.contstr = Drop(line, p), !.strstart = <<lnum, p - 1>>,
                                 !.contline = line, !.endq = q]
        ELSE IF c \in {SQ, DQ} /\ EndOfContStr(line, p + 1, c) # 0
        THEN LET e == EndOfContStr(line, p + 1, c)
             IN  IF line[e - 1] = "\n"
                 THEN [st EXCEPT !.contstr = Drop(line, p), !.strstart = <<lnum, p - 1>>,
                                 !.contline = line, !.endq = <<c>>, !.needcont = TRUE]
                 ELSE LexLine(line, e, Emit(st, Token("STRING", SubSeq(line, p, e - 1), lnum, p - 1, lnum, e - 1, line)))
        ELSE IF c \in Letters
        THEN LET e == SkipChars(line, p, Letters)
             IN  LexLine(line, e, Emit(st, Token("NAME", SubSeq(line, p, e - 1), lnum, p - 1, lnum, e - 1, line)))
        ELSE IF c = "\n" \/ (c = "\r" /\ StartsWithAt(line, <<"\n">>, p + 1))
        THEN LET e == IF c = "\n" THEN p + 1 ELSE p + 2
             IN  LexLine(line, e, Emit(st, Token(IF st.parenlev > 0 THEN "NL" ELSE "NEWLINE",
                                                 SubSeq(line, p, e - 1), lnum, p - 1, lnum, e - 1, line)))
        ELSE IF c \in OpChars
        THEN LET lev == IF c = "(" THEN st.parenlev + 1
                        ELSE IF c = ")" THEN st.parenlev - 1 ELSE st.parenlev
             IN  LexLine(line, p + 1, Emit([st EXCEPT !.parenlev = lev],
                                           Token("OP", <<c>>, lnum, p - 1, lnum, p, line)))
        ELSE LexLine(line, pos + 1, Emit(st, Token("ERRORTOKEN", <<line[pos]>>, lnum, pos - 1, lnum, pos, line)))

\* The DEDENT tokens of a new statement at `column` (the `while column < indents[-1]` loop).
RECURSIVE Dedent(_, _, _, _)
Dedent(st, column, pos, line) ==
    IF column < st.indents[Len(st.indents)]
    THEN IF \A k \in 1..Len(st.indents) : st.indents[k] # column
         THEN [st EXCEPT !.err = "IndentationError"]
         ELSE Dedent(Emit([st EXCEPT !.indents = SubSeq(@, 1, Len(@) - 1)],
                          Token("DEDENT", <<>>, st.lnum, pos - 1, st.lnum, pos - 1, line)),
                     column, pos, line)
    ELSE st

\* After the last line: the implicit NEWLINE, the closing DEDENTs and ENDMARKER.
RECURSIVE CloseIndents(_, _)
CloseIndents(st, n) ==
    IF n <= 0 THEN st
    ELSE CloseIndents(Emit(st, Token("DEDENT", <<>>, st.lnum, 0, st.lnum, 0, <<>>)), n - 1)

EndOfInput(st) ==
    LET ll == st.lastLine
        s1 == IF ll # <<>> /\ ll[Len(ll)] \notin {"\r", "\n"} /\ ~StartsWith(Strip(ll), <<"#">>)
              THEN Emit(st, Token("NEWLINE", <<>>, st.lnum - 1, Len(ll), st.lnum - 1, Len(ll) + 1, <<>>))
              ELSE st
        s2 == CloseIndents(s1, Len(st.indents) - 1)
    IN  Emit(s2, Token("ENDMARKER", <<>>, st.lnum, 0, st.lnum, 0, <<>>))

\* The outer loop `while True` of the tokenizer: line k of lines, the empty
\* line once the input is exhausted.
RECURSIVE LexLines(_, _, _)
LexLines(lines, k, st0) ==
    LET line == IF k <= Len(lines) THEN lines[k] ELSE <<>>
        st == [st0 EXCEPT !.lnum = @ + 1, !.lastLine = st0.line, !.line = line]
        lnum == st.lnum
        max == Len(line)
    IN  IF st.contstr # <<>>
        THEN IF line = <<>> THEN [st EXCEPT !.err = "EOF in multi-line string"]
             ELSE LET e == EndOfString(line, 1, st.endq)
                  IN  IF e # 0
                      THEN LexLines(lines, k + 1,
                             LexLine(line, e,
                               Emit([st EXCEPT !.contstr = <<>>, !.needcont = FALSE],
                                    Token("STRING", st.contstr \o Take(line, e - 1),
                                          st.strstart[1], st.strstart[2], lnum, e - 1,
                                          st.contline \o line))))
                      ELSE IF st.needcont /\ ~EndsWith(line, <<BS, "\n">>)
                              /\ ~EndsWith(line, <<BS, "\r", "\n">>)
                      THEN LexLines(lines, k + 1,
                             Emit([st EXCEPT !.contstr = <<>>],
                                  Token("ERRORTOKEN", st.contstr \o line,
                                        st.strstart[1], st.strstart[2], lnum, max, st.contline)))
                      ELSE LexLines(lines, k + 1,
                             [st EXCEPT !.contstr = @ \o line, !.contline = @ \o line])
        ELSE IF st.parenlev = 0 /\ ~st.continued
        THEN IF line = <<>> THEN EndOfInput(st)
             ELSE LET pos == SkipChars(line, 1, {" ", "\t"})
                      column == IndentColumn(Take(line, pos - 1), 0)
                  IN  IF pos > max THEN EndOfInput(st)
                      ELSE IF line[pos] \in {"#", "\r", "\n"}
                      THEN LET ce == IF line[pos] = "#"
                                     THEN Len(RStripChars(line, {"\r", "\n"})) + 1 ELSE pos
                               s1 == IF line[pos] = "#"
                                     THEN Emit(st, Token("COMMENT", SubSeq(line, pos, ce - 1),
                                                         lnum, pos - 1, lnum, ce - 1, line))
                                     ELSE st
                           IN  LexLines(lines, k + 1,
                                 Emit(s1, Token("NL", Drop(line, ce), lnum, ce - 1, lnum, max, line)))
                      ELSE LET s1 == IF column > st.indents[Len(st.indents)]
                                     THEN Emit([st EXCEPT !.indents = Append(@, column)],
                                               Token("INDENT", Take(line, pos - 1), lnum, 0, lnum, pos - 1, line))
                                     ELSE st
                               s2 == Dedent(s1, column, pos, line)
                           IN  IF s2.err # "" THEN s2
                               ELSE LexLines(lines, k + 1, LexLine(line, pos, s2))
        ELSE IF line = <<>> THEN [st EXCEPT !.err = "EOF in multi-line statement"]
             ELSE LexLines(lines, k + 1, LexLine(line, 1, [st EXCEPT !.continued = FALSE]))

\* tokenize.generate_tokens(StringIO(source).readline): the tokens produced, and
\* the error that ends the generator ("" when it ends with ENDMARKER).
generate_tokens(source) ==
    LET st == LexLines(ReadLines(source), 1,
                       [lnum |-> 0, parenlev |-> 0, continued |-> FALSE, indents |-> <<0>>,
                        contstr |-> <<>>, needcont |-> FALSE, endq |-> <<>>,
                        strstart |-> <<0, 0>>, contline |-> <<>>, toks |-> <<>>,
                        err |-> "", lastLine |-> <<>>, line |-> <<>>])
    IN  [toks |-> st.toks, err |-> st.err]

(***************************************************************************)
(* format_code: the reconstruction loop                                    *)
(***************************************************************************)

\* Lines 21-26: the loop-carried variables before the first token.
InitLoop ==
    [formatted |-> <<>>, previous_token_string |-> <<>>, previous_token_type |-> "None",
     previous_line |-> <<>>, last_row |-> 0, last_column |-> -1]

\* Lines 34-38: the tail of an escaped newline to re-insert before the token
\* (empty when the condition of line 34 is false).
EscapedNewline(ls, tok) ==
    IF tok.srow > ls.last_row
       /\ (\/ EndsWith(ls.previous_line, <<BS, "\n">>)
           \/ EndsWith(ls.previous_line, <<BS, "\r", "\n">>)
           \/ EndsWith(ls.previous_line, <<BS, "\r">>))
    THEN Drop(ls.previous_line,
              Len(RStripChars(ls.previous_line, {" ", "\t", "\n", "\r", BS})) + 1)
    ELSE <<>>

\* Lines 41-44: the spaces inserted before the token.
Spacing(ls, tok) ==
    LET col == IF tok.srow > ls.last_row THEN 0 ELSE ls.last_column
    IN  IF tok.scol > col THEN Spaces(tok.scol - col) ELSE <<>>

\* Lines 46-48: the token is taken for a docstring.
IsDocstring(ls, tok) ==
    /\ tok.type = "STRING"
    /\ starts_with_triple(tok.string)
    /\ ls.previous_token_type = "INDENT"

\* Lines 46-54: the text emitted for the token.
TokenText(ls, tok, w) ==
    IF IsDocstring(ls, tok)
    THEN format_docstring(ls.previous_token_string, tok.string, w)
    ELSE tok.string

\* Lines 28-61: one iteration of the loop.
Iterate(ls, tok, w) ==
    [formatted |-> ls.formatted \o EscapedNewline(ls, tok) \o Spacing(ls, tok)
                   \o TokenText(ls, tok, w),
     previous_token_string |-> tok.string,
     previous_token_type |-> tok.type,
     previous_line |-> tok.line,
     last_row |-> tok.erow,
     last_column |-> tok.ecol]

RECURSIVE Loop(_, _, _, _)
Loop(ls, toks, k, w) ==
    IF k > Len(toks) THEN ls ELSE Loop(Iterate(ls, toks[k], w), toks, k + 1, w)

\* format_code(source, summary_wrap_length): the text returned, or the
\* tokenizer's error raised out of the loop.
format_code(source, w) ==
    LET g == generate_tokens(source)
    IN  IF g.err # "" THEN [ok |-> FALSE, text |-> <<>>]
        ELSE [ok |-> TRUE, text |-> Loop(InitLoop, g.toks, 1, w).formatted]

(***************************************************************************)
(* State                                                                   *)
(***************************************************************************)

VARIABLES
    \* one call of format_code
    source,                 \* the argument
    summary_wrap_length,    \* the argument
    tokens,                 \* what generate_tokens yields for source
    lexerr,                 \* the error the generator ends with ("" for none)
    k,                      \* the index of the next token of the loop
    formatted, previous_token_string, previous_token_type, previous_line,
    last_row, last_column,  \* the loop-carried variables of lines 21-26
    pc,                     \* "loop", "returned" or "raised"
    token,                  \* the token of the last iteration
    token_text,             \* the text that iteration emitted for it (lines 49-54)
    branch,                 \* "docstring" (line 49) or "verbatim" (line 54)
    run,                    \* 1: the first call; 2: the call on the first call's result
    original,               \* the source of the first call
    \* one call of a function of the docstring normaliser
    arg, called, wrap, indentation, docstring, result, summary, description,
    \* main
    in_place, backup, wrap_long_summaries, files, disk, initial_disk, backups,
    standard_out, file_index, main_pc, main_source, formatted_source

fcVars == <<source, summary_wrap_length, tokens, lexerr, k, formatted,
            previous_token_string, previous_token_type, previous_line, last_row,
            last_column, pc, token, token_text, branch, run, original>>

docVars == <<arg, called, wrap, indentation, docstring, result, summary, description>>

mainVars == <<in_place, backup, wrap_long_summaries, files, disk, initial_disk, backups,
              standard_out, file_index, main_pc, main_source, formatted_source>>

vars == <<fcVars, docVars, mainVars>>

(***************************************************************************)
(* Inputs                                                                  *)
(***************************************************************************)

\* The longest enumerated docstring body of a source given to format_code.
MaxDoc == 2

\* The longest enumerated argument of the normaliser's functions.
MaxText == 4

\* The most lines of a source built from LineLib.
MaxLines == 2

\* The wrap width tried besides 0 (wrapping disabled).
MaxWrap == 5

\* The most files of a batch given to main.
MaxFiles == 2

Widths == {0, MaxWrap}

DocAlphabet == {"a", ".", " ", "\n", DQ, BS}

RECURSIVE TextsOfLen(_, _)
TextsOfLen(alphabet, n) ==
    IF n = 0 THEN {<<>>}
    ELSE {Append(t, c) : t \in TextsOfLen(alphabet, n - 1), c \in alphabet}

TextsUpTo(alphabet, n) == UNION {TextsOfLen(alphabet, m) : m \in 0..n}

\* The texts the inputs are built from.
DEF_F == <<"d", "e", "f", " ", "f", "(", ")", ":", "\n">>

LINE_PLAIN == <<"x", " ", "=", " ", "y", "\n">>

LINE_TAB == <<"x", " ", "=", "\t", "y", "\n">>

LINE_CONT == <<"x", " ", "=", " ", "y", " ", BS, "\n">>

LINE_CONT_TAB == <<"x", " ", "=", " ", "y", "\t", BS, "\n">>

LINE_BS == <<BS, "\n">>

LINE_MORE == <<" ", " ", "+", " ", "y", "\n">>

LINE_COMMENT == <<"#", " ", "c", BS, "\n">>

EX_RETURN_X == <<"d", "e", "f", " ", "f", "(", ")", ":", "\n", " ", " ", " ", " ", SQ, SQ, SQ, "r", "e", "t", "u", "r", "n", " ", "x", SQ, SQ, SQ, "\n", " ", " ", " ", " ", "p", "a", "s", "s">>

EX_RETURN_X_CAPITAL == <<"d", "e", "f", " ", "f", "(", ")", ":", "\n", " ", " ", " ", " ", DQ, DQ, DQ, "R", "e", "t", "u", "r", "n", " ", "x", ".", DQ, DQ, DQ, "\n", " ", " ", " ", " ", "p", "a", "s", "s">>

EX_RETURN_X_PERIOD == <<"d", "e", "f", " ", "f", "(", ")", ":", "\n", " ", " ", " ", " ", DQ, DQ, DQ, "r", "e", "t", "u", "r", "n", " ", "x", ".", DQ, DQ, DQ, "\n", " ", " ", " ", " ", "p", "a", "s", "s">>

EX_FIRST_LINE == <<"d", "e", "f", " ", "f", "(", ")", ":", "\n", " ", " ", " ", " ", SQ, SQ, SQ, "f", "i", "r", "s", "t", " ", "l", "i", "n", "e", "\n", "\n", "s", "e", "c", "o", "n", "d", " ", "p", "a", "r", "a", "g", "r", "a", "p", "h", ".", "\n", SQ, SQ, SQ, "\n", " ", " ", " ", " ", "p", "a", "s", "s", "\n">>

EX_WRAP == <<"d", "e", "f", " ", "f", "(", ")", ":", "\n", " ", " ", SQ, SQ, SQ, "a", ".", " ", "b", "\n", "\n", " ", " ", "c", SQ, SQ, SQ, "\n">>

EX_BACKSLASH == <<"d", "e", "f", " ", "f", "(", ")", ":", "\n", " ", " ", SQ, SQ, SQ, "a", BS, " ", SQ, SQ, SQ, "\n">>

EX_DOC_CONT == <<"d", "e", "f", " ", "f", "(", ")", ":", "\n", " ", " ", SQ, SQ, SQ, "a", SQ, SQ, SQ, ";", " ", "x", " ", "=", " ", "y", " ", BS, "\n", " ", " ", "+", " ", "y", "\n">>

EX_MIDEXPR == <<"d", "e", "f", " ", "f", "(", ")", ":", "\n", " ", " ", "x", " ", "=", " ", SQ, SQ, SQ, "a", SQ, SQ, SQ, "\n">>

EX_CRLF == <<"x", " ", "=", " ", "y", " ", BS, "\r", "\n", " ", " ", "+", " ", "y", "\r", "\n">>

EX_NESTED == <<"d", "e", "f", " ", "f", "(", ")", ":", "\n", " ", " ", SQ, SQ, SQ, "a", " ", DQ, DQ, DQ, " ", "b", SQ, SQ, SQ, "\n", " ", " ", "p", "a", "s", "s", "\n">>

EX_UNTERMINATED == <<"x", " ", "=", " ", SQ, SQ, SQ, "a", "\n">>

TEXT_RETURN_X == <<"R", "e", "t", "u", "r", "n", " ", " ", "x", ".", "\n", " ", " ", " ">>

TEXT_RETURN_X_KEPT == <<"R", "e", "t", "u", "r", "n", " ", " ", "x", ".">>

TEXT_RETURN_X_COLLAPSED == <<"R", "e", "t", "u", "r", "n", " ", "x", ".">>

TEXT_FIRST_LINE == <<"f", "i", "r", "s", "t", " ", "l", "i", "n", "e", "\n", "\n", "s", "e", "c", "o", "n", "d", " ", "p", "a", "r", "a", "g", "r", "a", "p", "h", ".", "\n">>

TEXT_PARAGRAPHS == <<"a", "\n", "\n", "b", " ", "\n", "\n", " ", "c", "\n", ".", "d">>

TEXT_SPACED_PERIOD == <<"a", " ", "b", " ", ".", "\n", "c">>

TEXT_FIRST_LINE_SUMMARY == <<"f", "i", "r", "s", "t", " ", "l", "i", "n", "e", ".">>

TEXT_SECOND_PARAGRAPH == <<"s", "e", "c", "o", "n", "d", " ", "p", "a", "r", "a", "g", "r", "a", "p", "h", ".">>

TEXT_PERIOD_THEN_BLANK == <<"a", ".", " ", "b", "\n", "\n", "c">>

\* def f():
\*   <quote><body><quote>
DocSource(quote, body) ==
    DEF_F \o <<" ", " ">> \o quote \o body \o quote \o <<"\n">>

DocSources ==
    {DocSource(quote, body) : quote \in {TripleSingle, TripleDouble},
                              body \in TextsUpTo(DocAlphabet, MaxDoc)}

\* Lines without docstrings: plain, tab-separated, continued, continuation-only, commented.
LineLib ==
    {LINE_PLAIN, LINE_TAB, LINE_CONT, LINE_CONT_TAB, LINE_BS, LINE_MORE, LINE_COMMENT}

RECURSIVE Concat(_)
Concat(parts) == IF parts = <<>> THEN <<>> ELSE parts[1] \o Concat(Tail(parts))

LineSources == {Concat(ls) : ls \in TextsUpTo(LineLib, MaxLines)}

ExampleSources ==
    {EX_RETURN_X, EX_FIRST_LINE, EX_WRAP, EX_BACKSLASH, EX_DOC_CONT, EX_MIDEXPR, EX_CRLF,
     EX_NESTED}

Sources == DocSources \cup LineSources \cup ExampleSources

\* The arguments of the normaliser's functions.
ExampleTexts ==
    {TEXT_RETURN_X, TEXT_FIRST_LINE, TEXT_PARAGRAPHS, TEXT_SPACED_PERIOD,
     TEXT_PERIOD_THEN_BLANK}

Texts == TextsUpTo(DocAlphabet, MaxText) \cup ExampleTexts

Indentations == {<<" ", " ", " ", " ">>, <<"\t">>}

\* The contents of the files given to main: changed by formatting, unchanged,
\* changed although it has no docstring, and not tokenizable.
FileContents == {EX_RETURN_X, EX_MIDEXPR, LINE_TAB, EX_UNTERMINATED}

(***************************************************************************)
(* format_code as a state machine: one action per loop iteration           *)
(***************************************************************************)

NoToken == Token("None", <<>>, 0, 0, 0, 0, <<>>)

\* The loop-carried variables as the record Iterate works on.
LoopState ==
    [formatted |-> formatted, previous_token_string |-> previous_token_string,
     previous_token_type |-> previous_token_type, previous_line |-> previous_line,
     last_row |-> last_row, last_column |-> last_column]

DocIdle ==
    /\ arg = <<>> /\ called = "none" /\ wrap = 0 /\ indentation = <<>>
    /\ docstring = <<>> /\ result = <<>> /\ summary = <<>> /\ description = <<>>

MainIdle ==
    /\ in_place = FALSE /\ backup = FALSE /\ wrap_long_summaries = 0 /\ files = <<>>
    /\ disk = <<>> /\ initial_disk = <<>> /\ backups = <<>> /\ standard_out = <<>> /\ file_index = 0 /\ main_pc = "none"
    /\ main_source = <<>> /\ formatted_source = <<>>

FcIdle ==
    /\ source = <<>> /\ summary_wrap_length = 0 /\ tokens = <<>> /\ lexerr = ""
    /\ k = 0 /\ formatted = <<>> /\ previous_token_string = <<>>
    /\ previous_token_type = "None" /\ previous_line = <<>> /\ last_row = 0
    /\ last_column = -1 /\ pc = "none" /\ token = NoToken /\ token_text = <<>>
    /\ branch = "none" /\ run = 0 /\ original = <<>>

\* Lines 20-27: format_code is entered with src and w.
Enter(src, w) ==
    /\ source' = src
    /\ summary_wrap_length' = w
    /\ \E g \in {generate_tokens(src)} : tokens' = g.toks /\ lexerr' = g.err
    /\ k' = 1
    /\ formatted' = InitLoop.formatted
    /\ previous_token_string' = InitLoop.previous_token_string
    /\ previous_token_type' = InitLoop.previous_token_type
    /\ previous_line' = InitLoop.previous_line
    /\ last_row' = InitLoop.last_row
    /\ last_column' = InitLoop.last_column
    /\ pc' = "loop"
    /\ token' = NoToken
    /\ token_text' = <<>>
    /\ branch' = "none"

Init ==
    /\ source \in Sources
    /\ summary_wrap_length \in Widths
    /\ \E g \in {generate_tokens(source)} : tokens = g.toks /\ lexerr = g.err
    /\ k = 1
    /\ formatted = InitLoop.formatted
    /\ previous_token_string = InitLoop.previous_token_string
    /\ previous_token_type = InitLoop.previous_token_type
    /\ previous_line = InitLoop.previous_line
    /\ last_row = InitLoop.last_row
    /\ last_column = InitLoop.last_column
    /\ pc = "loop"
    /\ token = NoToken
    /\ token_text = <<>>
    /\ branch = "none"
    /\ run = 1
    /\ original = source
    /\ DocIdle
    /\ MainIdle

\* Lines 28-61 for the next token, which takes the branch br.
Iteration(br) ==
    LET tok == tokens[k]
        nxt == Iterate(LoopState, tok, summary_wrap_length)
    IN  /\ formatted' = nxt.formatted
        /\ previous_token_string' = nxt.previous_token_string
        /\ previous_token_type' = nxt.previous_token_type
        /\ previous_line' = nxt.previous_line
        /\ last_row' = nxt.last_row
        /\ last_column' = nxt.last_column
        /\ token' = tok
        /\ token_text' = TokenText(LoopState, tok, summary_wrap_length)
        /\ branch' = br
        /\ k' = k + 1
        /\ UNCHANGED <<source, summary_wrap_length, tokens, lexerr, pc, run, original>>
        /\ UNCHANGED <<docVars, mainVars>>

\* An iteration whose token is taken for a docstring (lines 46-52).
EmitDocstring ==
    /\ pc = "loop"
    /\ k <= Len(tokens)
    /\ IsDocstring(LoopState, tokens[k])
    /\ Iteration("docstring")

\* An iteration whose token is emitted as it is (line 54).
EmitToken ==
    /\ pc = "loop"
    /\ k <= Len(tokens)
    /\ ~IsDocstring(LoopState, tokens[k])
    /\ Iteration("verbatim")

\* Line 63: the generator is exhausted and the text is returned.
Return ==
    /\ pc = "loop"
    /\ k > Len(tokens)
    /\ lexerr = ""
    /\ pc' = "returned"
    /\ UNCHANGED <<source, summary_wrap_length, tokens, lexerr, k, formatted,
                   previous_token_string, previous_token_type, previous_line, last_row,
                   last_column, token, token_text, branch, run, original>>
    /\ UNCHANGED <<docVars, mainVars>>

\* Line 27: the generator raises (TokenError, IndentationError) once the tokens
\* before the error have been processed; format_code returns nothing.
Raise ==
    /\ pc = "loop"
    /\ k > Len(tokens)
    /\ lexerr # ""
    /\ pc' = "raised"
    /\ UNCHANGED <<source, summary_wrap_length, tokens, lexerr, k, formatted,
                   previous_token_string, previous_token_type, previous_line, last_row,
                   last_column, token, token_text, branch, run, original>>
    /\ UNCHANGED <<docVars, mainVars>>

\* format_code is called again on what it returned, with the same width.
Reformat ==
    /\ pc = "returned"
    /\ run = 1
    /\ run' = 2
    /\ Enter(formatted, summary_wrap_length)
    /\ UNCHANGED original
    /\ UNCHANGED <<docVars, mainVars>>

Next == EmitDocstring \/ EmitToken \/ Return \/ Raise \/ Reformat

Spec == Init /\ [][Next]_vars

(***************************************************************************)
(* The normaliser's functions, each called on an argument                  *)
(***************************************************************************)

InitDoc ==
    /\ arg \in Texts
    /\ called = "none" /\ wrap = 0 /\ indentation = <<>>
    /\ docstring = <<>> /\ result = <<>> /\ summary = <<>> /\ description = <<>>
    /\ FcIdle
    /\ MainIdle

\* normalize_summary(arg, w)
CallNormalizeSummary ==
    /\ called = "none"
    /\ \E w \in Widths :
        /\ wrap' = w
        /\ result' = normalize_summary(arg, w)
    /\ called' = "normalize_summary"
    /\ UNCHANGED <<arg, indentation, docstring, summary, description>>
    /\ UNCHANGED <<fcVars, mainVars>>

\* split_summary_and_description(arg), for an argument that is stripped as
\* format_docstring's contents are.
CallSplit ==
    /\ called = "none"
    /\ arg = Strip(arg)
    /\ summary' = split_summary_and_description(arg)[1]
    /\ description' = split_summary_and_description(arg)[2]
    /\ called' = "split_summary_and_description"
    /\ UNCHANGED <<arg, wrap, indentation, docstring, result>>
    /\ UNCHANGED <<fcVars, mainVars>>

\* format_docstring(ind, quote + arg + quote, w)
CallFormatDocstring ==
    /\ called = "none"
    /\ \E quote \in {TripleSingle, TripleDouble}, ind \in Indentations, w \in Widths :
        /\ indentation' = ind
        /\ wrap' = w
        /\ docstring' = quote \o arg \o quote
        /\ result' = format_docstring(ind, quote \o arg \o quote, w)
    /\ called' = "format_docstring"
    /\ UNCHANGED <<arg, summary, description>>
    /\ UNCHANGED <<fcVars, mainVars>>

NextDoc == CallNormalizeSummary \/ CallSplit \/ CallFormatDocstring

SpecDoc == InitDoc /\ [][NextDoc]_vars

(***************************************************************************)
(* main: the files of a batch, one after the other                         *)
(***************************************************************************)

NoFile == [exists |-> FALSE, data |-> <<>>]

InitMain ==
    /\ in_place \in BOOLEAN
    /\ backup \in BOOLEAN
    /\ wrap_long_summaries \in Widths
    /\ \E n \in 1..MaxFiles :
        /\ files = [i \in 1..n |-> i]
        /\ disk \in [1..n -> FileContents]
        /\ backups = [i \in 1..n |-> NoFile]
    /\ initial_disk = disk
    /\ standard_out = <<>>
    /\ file_index = 1
    /\ main_pc = "open"
    /\ main_source = <<>>
    /\ formatted_source = <<>>
    /\ FcIdle
    /\ DocIdle

NextFile ==
    /\ file_index' = file_index + 1
    /\ main_pc' = "open"

\* Lines 202-207: the file is read and format_code returns.
FormatFile ==
    /\ main_pc = "open"
    /\ file_index <= Len(files)
    /\ format_code(disk[files[file_index]], wrap_long_summaries).ok
    /\ main_source' = disk[files[file_index]]
    /\ formatted_source' = format_code(disk[files[file_index]], wrap_long_summaries).text
    /\ main_pc' = "compare"
    /\ UNCHANGED <<in_place, backup, wrap_long_summaries, files, disk, initial_disk,
                   backups, standard_out, file_index>>
    /\ UNCHANGED <<fcVars, docVars>>

\* Lines 202-207: format_code raises; nothing in main catches it.
FormatFails ==
    /\ main_pc = "open"
    /\ file_index <= Len(files)
    /\ ~format_code(disk[files[file_index]], wrap_long_summaries).ok
    /\ main_source' = disk[files[file_index]]
    /\ main_pc' = "raised"
    /\ UNCHANGED <<in_place, backup, wrap_long_summaries, files, disk, initial_disk,
                   backups, standard_out, file_index, formatted_source>>
    /\ UNCHANGED <<fcVars, docVars>>

\* Line 209 is false: nothing is written or printed.
SkipUnchanged ==
    /\ main_pc = "compare"
    /\ main_source = formatted_source
    /\ NextFile
    /\ UNCHANGED <<in_place, backup, wrap_long_summaries, files, disk, initial_disk,
                   backups, standard_out, main_source, formatted_source>>
    /\ UNCHANGED <<fcVars, docVars>>

\* A variant of WriteBackup that writes the formatted source to the backup.
WriteBackup_Formatted ==
    /\ main_pc = "compare"
    /\ main_source # formatted_source
    /\ in_place
    /\ backup
    /\ backups' = [backups EXCEPT ![files[file_index]] =
                                     [exists |-> TRUE, data |-> formatted_source]]
    /\ main_pc' = "write"
    /\ UNCHANGED <<in_place, backup, wrap_long_summaries, files, disk, initial_disk,
                   standard_out, file_index, main_source, formatted_source>>
    /\ UNCHANGED <<fcVars, docVars>>

\* Lines 212-215: the source is written to <filename>.backup.
WriteBackup ==
    /\ main_pc = "compare"
    /\ main_source # formatted_source
    /\ in_place
    /\ backup
    /\ backups' = [backups EXCEPT ![files[file_index]] = [exists |-> TRUE, data |-> main_source]]
    /\ main_pc' = "write"
    /\ UNCHANGED <<in_place, backup, wrap_long_summaries, files, disk, initial_disk,
                   standard_out, file_index, main_source, formatted_source>>
    /\ UNCHANGED <<fcVars, docVars>>

\* Lines 217-219: the file is overwritten with the formatted source.
WriteFile ==
    /\ \/ main_pc = "write"
       \/ main_pc = "compare" /\ main_source # formatted_source /\ in_place /\ ~backup
    /\ disk' = [disk EXCEPT ![files[file_index]] = formatted_source]
    /\ NextFile
    /\ UNCHANGED <<in_place, backup, wrap_long_summaries, files, initial_disk, backups,
                   standard_out, main_source, formatted_source>>
    /\ UNCHANGED <<fcVars, docVars>>

\* Lines 221-227: the diff of the file is written to standard_out.
PrintDiff ==
    /\ main_pc = "compare"
    /\ main_source # formatted_source
    /\ ~in_place
    /\ standard_out' = Append(standard_out,
                              [file |-> files[file_index],
                               before |-> SplitLines(main_source),
                               after |-> SplitLines(formatted_source)])
    /\ NextFile
    /\ UNCHANGED <<in_place, backup, wrap_long_summaries, files, disk, initial_disk,
                   backups, main_source, formatted_source>>
    /\ UNCHANGED <<fcVars, docVars>>

\* The loop of line 201 is over.
Exit ==
    /\ main_pc = "open"
    /\ file_index > Len(files)
    /\ main_pc' = "exit"
    /\ UNCHANGED <<in_place, backup, wrap_long_summaries, files, disk, initial_disk,
                   backups, standard_out, file_index, main_source, formatted_source>>
    /\ UNCHANGED <<fcVars, docVars>>

NextMain ==
    FormatFile \/ FormatFails \/ SkipUnchanged \/ WriteBackup \/ WriteFile \/ PrintDiff \/ Exit

SpecMain == InitMain /\ [][NextMain]_vars

(***************************************************************************)
(* Properties                                                              *)
(***************************************************************************)

\* C1. Idempotence: when format_code is called on the text a first call
\* returned (the same width), the second call returns and returns that text.
C1_Idempotent ==
    (run = 2 /\ pc # "loop") => (pc = "returned" /\ formatted = source)

\* Some token of toks is taken for a docstring: a STRING that starts with a
\* triple quote and directly follows an INDENT.
HasDocstring(toks) ==
    \E i \in 2..Len(toks) :
        /\ toks[i].type = "STRING"
        /\ starts_with_triple(toks[i].string)
        /\ toks[i - 1].type = "INDENT"

\* C2. Non-docstring preservation: a source without a triple-quoted string
\* directly after an INDENT is returned byte for byte.
C2_NonDocstringPreserved ==
    (run = 1 /\ pc = "returned" /\ ~HasDocstring(tokens)) => formatted = source

\* C3. Nested-quote passthrough: a docstring whose stripped contents hold """ is
\* emitted as its original token text, and the output so far ends with it.
C3_NestedQuotePassthrough ==
    (branch = "docstring" /\ Contains(strip_docstring(token.string), TripleDouble))
        => (token_text = token.string /\ EndsWith(formatted, token.string))

\* A docstring in single triple quotes whose contents hold """ has just been
\* emitted, in a source that tokenizes to its end.
C3_Witness ==
    /\ branch = "docstring"
    /\ Contains(strip_docstring(token.string), TripleDouble)
    /\ StartsWith(token.string, TripleSingle)
    /\ EndsWith(formatted, token.string)
    /\ lexerr = ""
    /\ run = 1

\* C4, as claimed: for def f():\n    '''return x'''\n    pass and width 0,
\* format_code returns def f():\n    """Return x."""\n    pass.
C4_ScenarioCapitalised ==
    (original = EX_RETURN_X /\ summary_wrap_length = 0 /\ run = 1 /\ pc # "loop")
        => (pc = "returned" /\ formatted = EX_RETURN_X_CAPITAL)

\* C4, amended: for that input and width 0, format_code returns
\* def f():\n    """return x."""\n    pass: double quotes, a period appended,
\* the case of the first letter and the surrounding code unchanged.
C4_Scenario ==
    (original = EX_RETURN_X /\ summary_wrap_length = 0 /\ run = 1 /\ pc # "loop")
        => (pc = "returned" /\ formatted = EX_RETURN_X_PERIOD)

C4_Witness ==
    original = EX_RETURN_X /\ summary_wrap_length = 0 /\ run = 1 /\ pc = "returned"

\* The tails (trailing whitespace, backslash and line end) of the physical
\* lines that end in a backslash before the line end.
RECURSIVE TailsOf(_)
TailsOf(lines) ==
    IF lines = <<>> THEN <<>>
    ELSE LET l == lines[1]
             body == RStripChars(l, {"\n", "\r"})
         IN  (IF body # <<>> /\ body[Len(body)] = BS /\ Len(body) < Len(l)
              THEN <<Drop(l, Len(RStripChars(l, {" ", "\t", "\n", "\r", BS})) + 1)>>
              ELSE <<>>)
             \o TailsOf(Tail(lines))

ContinuationTails(text) == TailsOf(ReadLines(text))

\* Every backslash of the source is a line continuation: none lies in a
\* string, a comment or an error token.
OnlyContinuationBackslashes(toks) ==
    \A i \in 1..Len(toks) :
        toks[i].type \in {"STRING", "COMMENT", "ERRORTOKEN"} => ~Contains(toks[i].string, <<BS>>)

\* C6. Line-continuation preservation: the continuation tails of the output's
\* lines are those of the input's lines, in the same order.
C6_ContinuationsPreserved ==
    (run = 1 /\ pc = "returned" /\ OnlyContinuationBackslashes(tokens))
        => ContinuationTails(formatted) = ContinuationTails(source)

\* The index just past the first closing """ of a literal at or after pos, a
\* backslash escaping the character after it; 0 when there is none.
RECURSIVE FirstClosing(_, _)
FirstClosing(text, pos) ==
    IF pos > Len(text) THEN 0
    ELSE IF text[pos] = BS THEN FirstClosing(text, pos + 2)
    ELSE IF StartsWithAt(text, TripleDouble, pos) THEN pos + 3
    ELSE FirstClosing(text, pos + 1)

\* C10. The text emitted for a docstring is one triple-quoted literal: the
\* original token, or a text that opens with """ and whose first closing """
\* is its last three characters.
C10_DocstringStaysLiteral ==
    branch = "docstring"
        => \/ token_text = token.string
           \/ /\ StartsWith(token_text, TripleDouble)
              /\ FirstClosing(token_text, 4) = Len(token_text) + 1

\* C5, as claimed: with wrapping disabled the normalised summary is one line
\* without surrounding whitespace, and "Return  x.\n   " becomes "Return x.".
C5_SummaryCollapsed ==
    (called = "normalize_summary" /\ wrap = 0)
        => /\ ~Contains(result, <<"\n">>)
           /\ result = Strip(result)
           /\ arg = TEXT_RETURN_X => result = TEXT_RETURN_X_COLLAPSED

\* C5, amended: with wrapping disabled the normalised summary is one line
\* without surrounding whitespace, and "Return  x.\n   " becomes "Return  x.":
\* whitespace that spans no newline is kept.
C5_SummarySingleLine ==
    (called = "normalize_summary" /\ wrap = 0)
        => /\ ~Contains(result, <<"\n">>)
           /\ result = Strip(result)
           /\ arg = TEXT_RETURN_X => result = TEXT_RETURN_X_KEPT

C5_Witness ==
    called = "normalize_summary" /\ wrap = 0 /\ arg = TEXT_RETURN_X

\* The least index of a period that whitespace follows, 0 when there is none.
FirstPeriodSpace(text) ==
    LET hits == {i \in 1..(Len(text) - 1) : text[i] = "." /\ IsSpace(text[i + 1])}
    IN  IF hits = {} THEN 0 ELSE CHOOSE i \in hits : \A j \in hits : i <= j

BlankSecondLine(text) ==
    /\ Len(SplitLines(text)) >= 2
    /\ \A i \in 1..Len(SplitLines(text)[2]) : IsSpace(SplitLines(text)[2][i])

\* C9, as claimed: the blank-line rule first; otherwise the summary is the text
\* up to and including the first period that whitespace follows and the
\* description the stripped remainder; otherwise all is summary.
C9_SplitUpToPeriod ==
    called = "split_summary_and_description"
        => IF BlankSecondLine(arg)
           THEN /\ summary = SplitLines(arg)[1]
                /\ description = Join(SubSeq(SplitLines(arg), 3, Len(SplitLines(arg))), <<"\n">>)
           ELSE IF FirstPeriodSpace(arg) # 0
           THEN /\ summary = Take(arg, FirstPeriodSpace(arg))
                /\ description = Strip(Drop(arg, FirstPeriodSpace(arg) + 1))
           ELSE summary = arg /\ description = <<>>

\* C9, amended: as claimed, but in the period rule the summary is the text
\* before that period with its trailing whitespace trimmed, then a period.
C9_SplitOrder ==
    called = "split_summary_and_description"
        => IF BlankSecondLine(arg)
           THEN /\ summary = SplitLines(arg)[1]
                /\ description = Join(SubSeq(SplitLines(arg), 3, Len(SplitLines(arg))), <<"\n">>)
           ELSE IF FirstPeriodSpace(arg) # 0
           THEN /\ summary = RStrip(Take(arg, FirstPeriodSpace(arg) - 1)) \o <<".">>
                /\ description = Strip(Drop(arg, FirstPeriodSpace(arg) + 1))
           ELSE summary = arg /\ description = <<>>

\* The blank-line rule applies although the first line holds a period that
\* whitespace follows.
C9_Witness ==
    /\ called = "split_summary_and_description"
    /\ BlankSecondLine(arg)
    /\ FirstPeriodSpace(SplitLines(arg)[1]) # 0
    /\ description # <<>>

\* A description line as C8 expects it in the result: prefixed with the
\* indentation when it starts with no whitespace, kept otherwise, and without
\* trailing whitespace.
ExpectedLine(line, ind) ==
    RStrip(IF line = <<>> \/ ~IsSpace(line[1]) THEN ind \o line ELSE line)

\* C8. Multi-line shape: with a non-empty description the result is """, the
\* normalised summary, a blank line, the description's lines reindented and
\* trimmed, a blank line, the indentation and """.
C8_MultiLineShape ==
    LET contents == Strip(arg)
        sd == split_summary_and_description(contents)
        ls == SplitLines(sd[2])
    IN  (called = "format_docstring" /\ ~Contains(contents, TripleDouble) /\ sd[2] # <<>>)
            => result = TripleDouble \o normalize_summary(sd[1], wrap) \o <<"\n", "\n">>
                        \o Join([i \in 1..Len(ls) |-> ExpectedLine(ls[i], indentation)], <<"\n">>)
                        \o <<"\n", "\n">> \o indentation \o TripleDouble

\* The example of C8: '''first line\n\nsecond paragraph.\n''' at four spaces.
C8_Witness ==
    /\ called = "format_docstring"
    /\ arg = TEXT_FIRST_LINE
    /\ docstring = TripleSingle \o TEXT_FIRST_LINE \o TripleSingle
    /\ indentation = <<" ", " ", " ", " ">>
    /\ wrap = 0
    /\ result = TripleDouble \o TEXT_FIRST_LINE_SUMMARY \o <<"\n", "\n">>
                \o indentation \o TEXT_SECOND_PARAGRAPH \o <<"\n", "\n">>
                \o indentation \o TripleDouble

\* C7. main writes a file only in in-place mode, only with what format_code
\* returned for its source and only when that differs; the backup then holds
\* the source; a file whose formatting fails or changes nothing is left alone
\* with no backup and no diff; files not yet reached are untouched.
C7_MainWritesSafe ==
    \A f \in 1..Len(files) :
        LET src == initial_disk[f]
            r == format_code(src, wrap_long_summaries)
            printed == \E i \in 1..Len(standard_out) : standard_out[i].file = f
        IN  /\ disk[f] # src
                => /\ in_place /\ r.ok /\ r.text # src /\ disk[f] = r.text
                   /\ backup => backups[f] = [exists |-> TRUE, data |-> src]
            /\ backups[f].exists
                => in_place /\ backup /\ r.ok /\ r.text # src /\ backups[f].data = src
            /\ printed => ~in_place /\ r.ok /\ r.text # src
            /\ (~r.ok \/ r.text = src \/ f > file_index)
                => disk[f] = src /\ ~backups[f].exists /\ ~printed

\* Formatting a file failed after an earlier file of the batch was backed up
\* and overwritten.
C7_Witness ==
    /\ main_pc = "raised"
    /\ \E f \in 1..Len(files) :
        f < file_index /\ disk[f] # initial_disk[f] /\ backups[f].exists

====
